---- MODULE Spec2Model ----
(***************************************************************************)
(* A model of improve.py: create_enhanced_stock_data(input_file,           *)
(* output_file), the feature-engineering pipeline of STOCK-E-RR.           *)
(*                                                                         *)
(* The table df is a function from column names to columns; a column is a  *)
(* sequence of cell values, row 0 of the code being index 1 here.          *)
(* A cell is a tagged tuple:                                               *)
(*   <<"num", n, d>>   the float n/d (d > 0, lowest terms); d = 0 holds    *)
(*                     the IEEE specials: <<"num",0,0>> is NaN,            *)
(*                     <<"num",1,0>> +inf, <<"num",-1,0>> -inf;            *)
(*   <<"surd", an, ad, bn, bd, vn, vd>>  the float a + b*sqrt(v), b # 0,   *)
(*                     v > 0 (rolling standard deviations and what is      *)
(*                     derived from them);                                 *)
(*   <<"ewm", span, xs>>  the adjusted exponentially weighted mean, with   *)
(*                     alpha = 2/(span+1), of the observations xs;         *)
(*   <<"sub", x, y>>   the difference of two such terms;                   *)
(*   <<"date", y, m, d>>  a parsed calendar date.                          *)
(* Arithmetic is exact: floating-point rounding is not modelled.           *)
(***************************************************************************)
EXTENDS Integers, Sequences, FiniteSets, Bags, TLC

VARIABLES input_file, pc, df, output_file, returned, raised

vars == <<input_file, pc, df, output_file, returned, raised>>

---------------------------------------------------------------------------
(* Evaluation order *)

\* Steps in sequence: each value of the tuple is computed before the next
\* one, which may read it, and the last is the result.
Last(steps) == steps[Len(steps)]

---------------------------------------------------------------------------
(* Floats *)

NaN == <<"num", 0, 0>>

Abs(x) == IF x < 0 THEN -x ELSE x

Sgn(x) == IF x > 0 THEN 1 ELSE IF x < 0 THEN -1 ELSE 0

RECURSIVE Gcd(_, _)
Gcd(a, b) == IF b = 0 THEN a ELSE Gcd(b, a % b)

\* The float n/d; x/0 is +inf, -inf or NaN as IEEE division gives.
Frac(n, d) ==
    IF d = 0 THEN <<"num", Sgn(n), 0>>
    ELSE LET g == Gcd(Abs(n), Abs(d))
             s == Sgn(d)
         IN  <<"num", (s * n) \div g, Abs(d) \div g>>

Num(k) == <<"num", k, 1>>

IsNum(v) == v[1] = "num"

IsNaN(v) == v[1] = "num" /\ v[2] = 0 /\ v[3] = 0

IsFinite(v) == v[1] = "num" /\ v[3] # 0

FAdd(a, b) ==
    IF a[3] = 0 /\ b[3] = 0
    THEN (IF a[2] = b[2] THEN a ELSE NaN)
    ELSE Frac(a[2] * b[3] + b[2] * a[3], a[3] * b[3])

FNeg(a) == <<"num", -a[2], a[3]>>

FSub(a, b) == FAdd(a, FNeg(b))

FMul(a, b) == Frac(a[2] * b[2], a[3] * b[3])

\* Signed zeros are not kept: a zero divisor counts as +0.0.  The only -0.0
\* the pipeline makes is in calculate_rsi's loss column, where gain/-0.0 is
\* -inf or NaN and the rsi it gives (100 or NaN) is that of gain/+0.0.
FDiv(a, b) ==
    IF a[3] = 0
    THEN (IF b[3] = 0 THEN NaN
          ELSE <<"num", a[2] * (IF b[2] < 0 THEN -1 ELSE 1), 0>>)
    ELSE Frac(a[2] * b[3], a[3] * b[2])

\* a > b on floats: False when either side is NaN.
FGt(a, b) ==
    /\ ~IsNaN(a)
    /\ ~IsNaN(b)
    /\ IF a[3] = 0 THEN a[2] = 1 /\ b # a
       ELSE IF b[3] = 0 THEN b[2] = -1
       ELSE a[2] * b[3] > b[2] * a[3]

\* a + b*sqrt(v) for floats a, b, v (v >= 0 or NaN).
Surd(a, b, v) ==
    IF IsNaN(a) \/ IsNaN(b) \/ IsNaN(v) THEN NaN
    ELSE IF b[2] = 0 \/ v[2] = 0 THEN a
    ELSE <<"surd", a[2], a[3], b[2], b[3], v[2], v[3]>>

RatPart(x) == IF IsNum(x) THEN x ELSE <<"num", x[2], x[3]>>

SurdCoef(x) == IF IsNum(x) THEN Num(0) ELSE <<"num", x[4], x[5]>>

Radicand(x, y) ==
    IF ~IsNum(x) THEN <<"num", x[6], x[7]>>
    ELSE IF ~IsNum(y) THEN <<"num", y[6], y[7]>>
    ELSE Num(0)

\* Arithmetic on cells that are floats or surds of one radicand.
VAdd(x, y) ==
    IF IsNum(x) /\ IsNum(y) THEN FAdd(x, y)
    ELSE LET a == FAdd(RatPart(x), RatPart(y))
             b == FAdd(SurdCoef(x), SurdCoef(y))
         IN  Last(<<a, b, Surd(a, b, Radicand(x, y))>>)

VNeg(x) == IF IsNum(x) THEN FNeg(x) ELSE <<"surd", -x[2], x[3], -x[4], x[5], x[6], x[7]>>

VSub(x, y) == LET minus == VNeg(y) IN Last(<<minus, VAdd(x, minus)>>)

\* x * k and x / k for a float k.
VScale(x, k) ==
    IF IsNum(x) THEN FMul(x, k)
    ELSE LET a == FMul(RatPart(x), k)
             b == FMul(SurdCoef(x), k)
         IN  Last(<<a, b, Surd(a, b, Radicand(x, x))>>)

\* x / y: (a + b*sqrt(v)) / (d*sqrt(v)) = b/d + (a/(d*v))*sqrt(v).
VDiv(x, y) ==
    IF IsNum(y)
    THEN (IF IsNum(x) THEN FDiv(x, y)
          ELSE LET k == FDiv(Num(1), y) IN Last(<<k, VScale(x, k)>>))
    ELSE LET d  == SurdCoef(y)
             v  == Radicand(y, y)
             dv == FMul(d, v)
             a  == FDiv(SurdCoef(x), d)
             b  == FDiv(RatPart(x), dv)
         IN  Last(<<d, v, dv, a, b, Surd(a, b, v)>>)

Sqrt(v) == Surd(Num(0), Num(1), v)

---------------------------------------------------------------------------
(* Columns: pandas Series operations *)

Rows(col) == 1..Len(col)

\* The function f on 1..n as the sequence of its values.
Column(f) == <<>> \o f

\* The sum of the integers f[j]: the positive ones less the negative ones,
\* each counted as the copies of a bag.
IntSum(f) ==
    LET pos == [j \in {k \in DOMAIN f : f[k] > 0} |-> f[j]]
        neg == [j \in {k \in DOMAIN f : f[k] < 0} |-> -f[j]]
    IN  BagCardinality(pos) - BagCardinality(neg)

\* The sum of col[lo..hi] by halves, as the floats add up.
RECURSIVE FloatSum(_, _, _)
FloatSum(col, lo, hi) ==
    IF lo > hi THEN Num(0)
    ELSE IF lo = hi THEN col[lo]
    ELSE LET mid == (lo + hi) \div 2
         IN  FAdd(FloatSum(col, lo, mid), FloatSum(col, mid + 1, hi))

\* The sum of col[lo..hi]: of whole numbers, the whole number that is their
\* sum.
WindowSum(col, lo, hi) ==
    IF \A j \in lo..hi : col[j][3] = 1
    THEN Num(IntSum([j \in lo..hi |-> col[j][2]]))
    ELSE FloatSum(col, lo, hi)

\* A rolling mean with min_periods=1: the mean of the rows there are.
RollingMeanPartial(col, w) ==
    Column([i \in Rows(col) |->
        IF i < w THEN FDiv(WindowSum(col, 1, i), Num(i))
        ELSE FDiv(WindowSum(col, i - w + 1, i), Num(w))])

\* Series.rolling(window=w).mean(): min_periods is the window.
RollingMean(col, w) ==
    Column([i \in Rows(col) |->
        IF i < w THEN NaN ELSE FDiv(WindowSum(col, i - w + 1, i), Num(w))])

Square(col) == Column([i \in Rows(col) |-> FMul(col[i], col[i])])

\* The sample variance (ddof = 1) of the trailing window.
RollingVar(col, w) ==
    LET sq == Square(col)
        var == Column([i \in Rows(col) |->
                   IF i < w THEN NaN
                   ELSE LET s   == WindowSum(col, i - w + 1, i)
                            ss  == WindowSum(sq, i - w + 1, i)
                            wss == FMul(Num(w), ss)
                            s2  == FMul(s, s)
                            top == FSub(wss, s2)
                        IN  Last(<<s, ss, wss, s2, top, FDiv(top, Num(w * (w - 1)))>>)])
    IN  Last(<<sq, var>>)

\* Series.rolling(window=w).std()
RollingStd(col, w) ==
    LET var == RollingVar(col, w)
    IN  Last(<<var, Column([i \in Rows(col) |-> Sqrt(var[i])])>>)

\* The greatest and the least of col[lo..hi]; no value when one of them is
\* NaN, the window being short of observations then.
WindowMax(col, lo, hi) ==
    IF \E j \in lo..hi : IsNaN(col[j]) THEN NaN
    ELSE col[CHOOSE j \in lo..hi : \A k \in lo..hi : ~FGt(col[k], col[j])]

WindowMin(col, lo, hi) ==
    IF \E j \in lo..hi : IsNaN(col[j]) THEN NaN
    ELSE col[CHOOSE j \in lo..hi : \A k \in lo..hi : ~FGt(col[j], col[k])]

RollingMax(col, w) ==
    Column([i \in Rows(col) |-> IF i < w THEN NaN ELSE WindowMax(col, i - w + 1, i)])

RollingMin(col, w) ==
    Column([i \in Rows(col) |-> IF i < w THEN NaN ELSE WindowMin(col, i - w + 1, i)])

\* Series.shift(k): the value k rows earlier (later when k < 0), NaN outside.
Shift(col, k) ==
    Column([i \in Rows(col) |-> IF i - k \in Rows(col) THEN col[i - k] ELSE NaN])

\* Series.diff()
Diff(col) ==
    LET prev == Shift(col, 1)
    IN  Last(<<prev, Column([i \in Rows(col) |-> FSub(col[i], prev[i])])>>)

\* Series.pct_change()
PctChange(col) ==
    LET prev == Shift(col, 1)
    IN  Last(<<prev, Column([i \in Rows(col) |->
                   LET ratio == FDiv(col[i], prev[i])
                   IN  Last(<<ratio, FSub(ratio, Num(1))>>)])>>)

\* An exponential mean with min_periods=span: no value on the first rows.
EwmMinPeriods(col, span) ==
    Column([i \in Rows(col) |->
        IF i < span THEN NaN ELSE <<"ewm", span, SubSeq(col, 1, i)>>])

\* Series.ewm(span=span).mean(): adjust=True, min_periods=0, so a value on
\* every row from the first observation on.
Ewm(col, span) == Column([i \in Rows(col) |-> <<"ewm", span, SubSeq(col, 1, i)>>])

\* The rows two columns of one table share.
Aligned(x, y) == Rows(x) \cap Rows(y)

\* Element-wise arithmetic of two columns, and of a column and a number.
ColAdd(x, y) == Column([i \in Aligned(x, y) |-> VAdd(x[i], y[i])])
ColSub(x, y) == Column([i \in Aligned(x, y) |-> VSub(x[i], y[i])])
ColMul(x, y) == Column([i \in Aligned(x, y) |-> FMul(x[i], y[i])])
ColDiv(x, y) == Column([i \in Aligned(x, y) |-> VDiv(x[i], y[i])])
ColScale(x, k) == Column([i \in Rows(x) |-> VScale(x[i], Num(k))])
ColTermSub(x, y) == Column([i \in Aligned(x, y) |-> <<"sub", x[i], y[i]>>])

\* np.where(x > y, 1, 0): a NaN on either side compares False.
WhereGt(x, y) ==
    Column([i \in Aligned(x, y) |-> IF FGt(x[i], y[i]) THEN Num(1) ELSE Num(0)])

---------------------------------------------------------------------------
(* Program constants *)

windows == <<5, 10, 20, 50>>

ema_windows == <<12, 26>>

signal_span == 9

rsi_window == 14

bb_window == 20

lag_periods == <<1, 2, 3, 5>>

roc_periods == <<5, 10, 20>>

\* '%y' of the date format: two-digit years from 69 on are 19yy, the others 20yy.
pivot_year == 69

MonthAbbr == <<"Jan", "Feb", "Mar", "Apr", "May", "Jun",
               "Jul", "Aug", "Sep", "Oct", "Nov", "Dec">>

BaseColumns == {"Date", "open", "high", "low", "close", "volume"}

---------------------------------------------------------------------------
(* The table *)

\* The function f on column names as a table.
Table(f) == f @@ <<>>

\* df[name] = col for each name of cols, a function from names to columns.
With(d, cols) == cols @@ d

\* Statements in sequence: the table d is computed, then Statement reads it.
Then(d, Statement(_)) == CHOOSE t \in {Statement(x) : x \in {d}} : TRUE

\* f'{prefix}{k}'
Name(prefix, k) == prefix \o ToString(k)

NumRows(d) == IF DOMAIN d = {} THEN 0 ELSE Len(d[CHOOSE c \in DOMAIN d : TRUE])

\* pd.to_datetime(text, format='%d-%b-%y') of one cell <<dd, "Mon", yy>>
ParseDate(text) ==
    LET m == CHOOSE k \in 1..12 : MonthAbbr[k] = text[2]
        y == IF text[3] < pivot_year THEN 2000 + text[3] ELSE 1900 + text[3]
    IN  <<"date", y, m, text[1]>>

DateKey(date) == date[2] * 10000 + date[3] * 100 + date[4]

\* Days since 1970-01-01 of a date of the proleptic Gregorian calendar.
DaysFromCivil(date) ==
    LET y   == IF date[3] <= 2 THEN date[2] - 1 ELSE date[2]
        era == y \div 400
        yoe == y - era * 400
        mp  == IF date[3] > 2 THEN date[3] - 3 ELSE date[3] + 9
        doy == (153 * mp + 2) \div 5 + date[4] - 1
        doe == yoe * 365 + yoe \div 4 - yoe \div 100 + doy
    IN  era * 146097 + doe - 719468

\* Series.dt.dayofweek: Monday is 0.
DayOfWeek(date) == (DaysFromCivil(date) + 3) % 7

\* No sort: the rows stay in the order of the file.
KeepOrder(d, reversed) == d

\* df.sort_values('Date').reset_index(drop=True).  The default sort kind is
\* quicksort, which is not stable: rows of one date come out in either order
\* (reversed says which).
SortValues(d, reversed) ==
    LET n    == NumRows(d)
        key  == Column([i \in 1..n |-> DateKey(d["Date"][i])])
        before(i, j) ==
            \/ key[i] < key[j]
            \/ key[i] = key[j] /\ (IF reversed THEN i > j ELSE i < j)
        rank == Column([i \in 1..n |-> 1 + Cardinality({j \in 1..n : before(j, i)})])
        at   == Column([r \in 1..n |-> CHOOSE i \in 1..n : rank[i] = r])
    IN  Table([c \in DOMAIN d |-> Column([r \in 1..n |-> d[c][at[r]]])])

\* Lines 18-27: basic price features and price ratios.
PriceFeatures(d) ==
    LET change == ColSub(d["close"], d["open"])
        ratio  == ColDiv(change, d["open"])
    IN Last(<<change, ratio,
    With(d,
      [price_range         |-> ColSub(d["high"], d["low"]),
       price_change        |-> change,
       price_change_pct    |-> ColScale(ratio, 100),
       close_to_open_ratio |-> ColDiv(d["close"], d["open"]),
       high_to_low_ratio   |-> ColDiv(d["high"], d["low"]),
       close_to_high_ratio |-> ColDiv(d["close"], d["high"]),
       close_to_low_ratio  |-> ColDiv(d["close"], d["low"])])>>)

\* Lines 29-37: the body of the loop for one window.
MovingAverage(d, w) ==
    LET sma  == RollingMean(d["close"], w)
        vsma == RollingMean(d["volume"], w)
    IN  Last(<<sma, vsma,
            With(d, (Name("sma_", w) :> sma) @@
                    (Name("volume_sma_", w) :> vsma) @@
                    (Name("close_vs_sma_", w) :> ColDiv(d["close"], sma)) @@
                    (Name("volume_vs_sma_", w) :> ColDiv(d["volume"], vsma)))>>)

\* The rounds lo..hi of the loop, one after the other.
RECURSIVE MovingAverages(_, _, _)
MovingAverages(d, lo, hi) ==
    IF lo = hi THEN MovingAverage(d, windows[lo])
    ELSE LET mid == (lo + hi) \div 2
         IN  Then(MovingAverages(d, lo, mid), LAMBDA t : MovingAverages(t, mid + 1, hi))

\* Lines 39-42: exponential moving averages, the body of the loop for one
\* window and the rounds lo..hi of the loop.
Ema(d, w) == With(d, Name("ema_", w) :> Ewm(d["close"], w))

RECURSIVE Emas(_, _, _)
Emas(d, lo, hi) ==
    IF lo = hi THEN Ema(d, ema_windows[lo])
    ELSE LET mid == (lo + hi) \div 2
         IN  Then(Emas(d, lo, mid), LAMBDA t : Emas(t, mid + 1, hi))

\* Lines 44-47: MACD.
Macd(d) ==
    LET macd   == ColTermSub(d["ema_12"], d["ema_26"])
        signal == Ewm(macd, signal_span)
    IN  Last(<<macd, signal,
            With(d, [macd |-> macd, macd_signal |-> signal,
                     macd_histogram |-> ColTermSub(macd, signal)])>>)

\* An rsi that guards the division: no value where the mean loss is 0.
rsi_guarded(series, window) ==
    LET delta == Diff(series)
        ups   == Column([i \in Rows(series) |->
                    IF FGt(delta[i], Num(0)) THEN delta[i] ELSE Num(0)])
        downs == Column([i \in Rows(series) |->
                    FNeg(IF FGt(Num(0), delta[i]) THEN delta[i] ELSE Num(0))])
        gain  == RollingMean(ups, window)
        loss  == RollingMean(downs, window)
    IN  Last(<<delta, ups, downs, gain, loss,
            Column([i \in Rows(series) |->
                IF loss[i] = Num(0) THEN NaN
                ELSE LET rs   == FDiv(gain[i], loss[i])
                         plus == FAdd(Num(1), rs)
                         part == FDiv(Num(100), plus)
                     IN  Last(<<rs, plus, part, FSub(Num(100), part)>>)])>>)

\* Lines 50-56: calculate_rsi(series, window=14)
calculate_rsi(series, window) ==
    LET delta == Diff(series)
        ups   == Column([i \in Rows(series) |->
                    IF FGt(delta[i], Num(0)) THEN delta[i] ELSE Num(0)])
        downs == Column([i \in Rows(series) |->
                    FNeg(IF FGt(Num(0), delta[i]) THEN delta[i] ELSE Num(0))])
        gain  == RollingMean(ups, window)
        loss  == RollingMean(downs, window)
    IN  Last(<<delta, ups, downs, gain, loss,
            Column([i \in Rows(series) |->
                LET rs   == FDiv(gain[i], loss[i])
                    plus == FAdd(Num(1), rs)
                    part == FDiv(Num(100), plus)
                IN  Last(<<rs, plus, part, FSub(Num(100), part)>>)])>>)

\* Line 58.
Rsi(d) == With(d, [rsi |-> calculate_rsi(d["close"], rsi_window)])

\* Lines 60-67: Bollinger bands.
Bollinger(d) ==
    LET middle == RollingMean(d["close"], bb_window)
        bb_std == RollingStd(d["close"], bb_window)
        twice  == ColScale(bb_std, 2)
        upper  == ColAdd(middle, twice)
        lower  == ColSub(middle, twice)
        width  == ColSub(upper, lower)
        above  == ColSub(d["close"], lower)
    IN  Last(<<middle, bb_std, twice, upper, lower, width, above,
            With(d, [bb_middle |-> middle, bb_upper |-> upper, bb_lower |-> lower,
                     bb_width |-> width,
                     bb_position |-> ColDiv(above, width)])>>)

\* Lines 69-76: volatility and volume features.
Volatility(d) ==
    LET range == ColSub(d["high"], d["low"])
        ratio == ColDiv(range, d["close"])
    IN Last(<<range, ratio,
    With(d,
      [volatility_5  |-> RollingStd(d["close"], 5),
       volatility_20 |-> RollingStd(d["close"], 20),
       price_range_pct |-> ColScale(ratio, 100),
       volume_change |-> PctChange(d["volume"]),
       volume_price_trend |-> ColMul(d["volume"], d["price_change_pct"])])>>)

\* Lag columns shifted the wrong way: the values lag rows later.
Lead(d, lag) ==
    With(d, (Name("close_lag_", lag) :> Shift(d["close"], -lag)) @@
            (Name("volume_lag_", lag) :> Shift(d["volume"], -lag)) @@
            (Name("price_change_lag_", lag) :> Shift(d["price_change_pct"], -lag)))

\* Lines 78-83: the body of the loop for one lag.
Lag(d, lag) ==
    With(d, (Name("close_lag_", lag) :> Shift(d["close"], lag)) @@
            (Name("volume_lag_", lag) :> Shift(d["volume"], lag)) @@
            (Name("price_change_lag_", lag) :> Shift(d["price_change_pct"], lag)))

RECURSIVE Lags(_, _, _)
Lags(d, lo, hi) ==
    IF lo = hi THEN Lag(d, lag_periods[lo])
    ELSE LET mid == (lo + hi) \div 2
         IN  Then(Lags(d, lo, mid), LAMBDA t : Lags(t, mid + 1, hi))

\* Lines 85-88: rate of change, the body of the loop for one period.
Roc(d, period) ==
    LET past   == Shift(d["close"], period)
        change == ColSub(d["close"], past)
        ratio  == ColDiv(change, past)
    IN  Last(<<past, change, ratio,
            With(d, Name("roc_", period) :> ColScale(ratio, 100))>>)

RECURSIVE Rocs(_, _, _)
Rocs(d, lo, hi) ==
    IF lo = hi THEN Roc(d, roc_periods[lo])
    ELSE LET mid == (lo + hi) \div 2
         IN  Then(Rocs(d, lo, mid), LAMBDA t : Rocs(t, mid + 1, hi))

\* Lines 90-94: support and resistance levels.
SupportResistance(d) ==
    LET high  == RollingMax(d["high"], 20)
        low   == RollingMin(d["low"], 20)
        below == ColSub(high, d["close"])
        above == ColSub(d["close"], low)
        up    == ColDiv(below, d["close"])
        down  == ColDiv(above, d["close"])
    IN  Last(<<high, low, below, above, up, down,
            With(d,
              [recent_high |-> high,
               recent_low  |-> low,
               distance_to_high |-> ColScale(up, 100),
               distance_to_low  |-> ColScale(down, 100)])>>)

\* Lines 96-100: calendar features.
TimeFeatures(d) ==
    LET date == d["Date"]
    IN  With(d,
          [day_of_week |-> Column([i \in Rows(date) |-> Num(DayOfWeek(date[i]))]),
           month   |-> Column([i \in Rows(date) |-> Num(date[i][3])]),
           quarter |-> Column([i \in Rows(date) |-> Num((date[i][3] - 1) \div 3 + 1)]),
           year    |-> Column([i \in Rows(date) |-> Num(date[i][2])])])

\* Lines 102-105: market trend flags.
TrendFeatures(d) ==
    With(d, [trend_5  |-> WhereGt(d["close"], d["sma_5"]),
             trend_20 |-> WhereGt(d["close"], d["sma_20"]),
             golden_cross |-> WhereGt(d["sma_5"], d["sma_20"])])

\* Lines 29-37, 39-42, 78-83 and 85-88: the loops.
AllMovingAverages(d) == MovingAverages(d, 1, Len(windows))

AllEmas(d) == Emas(d, 1, Len(ema_windows))

AllLags(d) == Lags(d, 1, Len(lag_periods))

AllRocs(d) == Rocs(d, 1, Len(roc_periods))

\* Lines 18-58: prices, moving averages, MACD and RSI.
Indicators(d) ==
    Then(Then(PriceFeatures(d), AllMovingAverages),
         LAMBDA t : Then(Then(AllEmas(t), Macd), Rsi))

\* Lines 60-88: bands, volatility, lags and rates of change.
History(d) ==
    Then(Then(Bollinger(d), Volatility), LAMBDA t : Then(AllLags(t), AllRocs))

\* Lines 90-105: levels, calendar and trend.
Context(d) == Then(Then(SupportResistance(d), TimeFeatures), TrendFeatures)

\* Lines 18-105, in the order of the code.
Features(d) == Then(Then(Indicators(d), History), Context)

\* Line 108.
NextDayReturn(d) ==
    LET next == Shift(d["close"], -1)
    IN  Last(<<next,
            With(d, [next_day_return |->
                Column([i \in Rows(next) |->
                    LET ratio == FDiv(next[i], d["close"][i])
                    IN  Last(<<ratio, FSub(ratio, Num(1))>>)])])>>)

\* Line 109.
BuySignalStrength(d) ==
    With(d, [buy_signal_strength |-> ColMul(d["BuySignal"], d["price_change_pct"])])

\* A dropna over the feature columns only, the target left out.
DropNaFeatures(d) ==
    LET n    == NumRows(d)
        cols == DOMAIN d \ {"next_day_return"}
        keep == {i \in 1..n : \A c \in cols : ~IsNaN(d[c][i])}
        at   == Column([r \in 1..Cardinality(keep) |->
                    CHOOSE i \in keep : Cardinality({j \in keep : j < i}) = r - 1])
    IN  Table([c \in DOMAIN d |-> Column([r \in 1..Cardinality(keep) |-> d[c][at[r]]])])

\* Line 112: df.dropna() keeps the rows that have no NaN in any column.
DropNa(d) ==
    LET n    == NumRows(d)
        keep == {i \in 1..n : \A c \in DOMAIN d : ~IsNaN(d[c][i])}
        at   == Column([r \in 1..Cardinality(keep) |->
                    CHOOSE i \in keep : Cardinality({j \in keep : j < i}) = r - 1])
    IN  Table([c \in DOMAIN d |-> Column([r \in 1..Cardinality(keep) |-> d[c][at[r]]])])

\* Lines 18-109 on a sorted series that has the BuySignal column: the table
\* before pruning.
Engineer(series) == Then(Then(Features(series), NextDayReturn), BuySignalStrength)

---------------------------------------------------------------------------
(* The input files *)

MaxExtra == 3

\* The closes of the 20-row scenario.
ScenarioCloses == <<10, 11, 12, 11, 10, 9, 10, 11, 12, 13,
                    14, 15, 16, 17, 18, 19, 20, 21, 22, 23>>

\* How many records a file has: the scenario's 20, and from one fewer than
\* the longest window on.
RowCounts == {Len(ScenarioCloses)} \cup {windows[4] - 1 + k : k \in 0..MaxExtra}

Slopes == {-1, 0, 1}

Shapes ==
    {[kind |-> "scenario", s1 |-> 0, s2 |-> 0]} \cup
    {[kind |-> "segments", s1 |-> a, s2 |-> b] : a \in Slopes, b \in Slopes}

StartDates == {<<1, 20>>, <<12, 68>>}

Orders == {"asc", "desc", "rotated"}

VolumeKinds == {"traded", "halted"}

\* Which record repeats the date of the one before it: none, the second or
\* the last.
Duplicates == {0, 2, windows[4] - 1 + MaxExtra}

Min(a, b) == IF a < b THEN a ELSE b

Max(a, b) == IF a > b THEN a ELSE b

\* The close of the k-th record written: the scenario's closes repeated, or
\* two straight segments that meet after 30 records.
CloseAt(shape, k) ==
    IF shape.kind = "scenario"
    THEN ScenarioCloses[((k - 1) % Len(ScenarioCloses)) + 1]
    ELSE 100 + shape.s1 * Min(k - 1, 30) + shape.s2 * Max(k - 1 - 30, 0)

OpenAt(shape, k) == CloseAt(shape, k) - ((k % 3) - 1)

\* The date text of the k-th record written, 28 records to a month.
DateAt(start, k) ==
    LET months == start[1] - 1 + (k - 1) \div 28
    IN  <<((k - 1) % 28) + 1, MonthAbbr[(months % 12) + 1],
          (start[2] + months \div 12) % 100>>

VolumeAt(kind, n, k) ==
    IF kind = "halted" /\ k > n - 6 THEN 0 ELSE 1000 + 10 * (k % 4)

\* The position in the file of the k-th record written.
Place(order, n, k) ==
    IF order = "asc" THEN k
    ELSE IF order = "desc" THEN n + 1 - k
    ELSE ((k + 2) % n) + 1

\* The record written at each position of a file of n records.
Arrangement(order, n) ==
    Column([k \in 1..n |-> CHOOSE j \in 1..n : Place(order, n, j) = k])

\* A CSV file: a function from the header's names to the columns of cells.
\* Record in.dup, if any, carries the date of the record before it.
MakeFile(in) ==
    LET n == in.n
        at == Arrangement(in.order, n)
        rec(k) == at[k]
        all ==
            [Date   |-> Column([k \in 1..n |->
                            DateAt(in.start, IF rec(k) = in.dup THEN rec(k) - 1 ELSE rec(k))]),
             open   |-> Column([k \in 1..n |-> OpenAt(in.shape, rec(k))]),
             high   |-> Column([k \in 1..n |->
                            Max(OpenAt(in.shape, rec(k)), CloseAt(in.shape, rec(k))) + 1]),
             low    |-> Column([k \in 1..n |->
                            Min(OpenAt(in.shape, rec(k)), CloseAt(in.shape, rec(k))) - 1]),
             close  |-> Column([k \in 1..n |-> CloseAt(in.shape, rec(k))]),
             volume |-> Column([k \in 1..n |-> VolumeAt(in.volume, n, rec(k))]),
             BuySignal |-> Column([k \in 1..n |-> rec(k) % 2])]
    IN  Table([c \in (IF in.label THEN BaseColumns \cup {"BuySignal"} ELSE BaseColumns) |->
                  all[c]])

ShapeInputs ==
    {[n |-> n, shape |-> sh, start |-> <<1, 20>>, order |-> "asc",
      dup |-> 0, label |-> TRUE, volume |-> "traded"] :
        n \in RowCounts, sh \in Shapes}

OrderInputs ==
    {[n |-> windows[4] - 1 + MaxExtra, shape |-> sh, start |-> st, order |-> o,
      dup |-> du, label |-> la, volume |-> vo] :
        sh \in {s \in Shapes : s.kind = "scenario"},
        st \in StartDates, o \in Orders, du \in Duplicates, la \in BOOLEAN,
        vo \in VolumeKinds}

Inputs == ShapeInputs \cup OrderInputs

---------------------------------------------------------------------------
(* create_enhanced_stock_data(input_file, output_file) *)

NoTable == <<>>

\* Lines 10-13: pd.read_csv and the parse of the Date column.
ReadCsv(file) ==
    Table([c \in DOMAIN file |->
        Column([k \in Rows(file[c]) |->
            IF c = "Date" THEN ParseDate(file[c][k]) ELSE Num(file[c][k])])])

\* Lines 10-112 on a file that has the BuySignal column: the table that is
\* written and returned.  reversed is the order the sort gives equal dates.
create_enhanced_stock_data(file, reversed) ==
    Then(Then(SortValues(ReadCsv(file), reversed), Engineer), DropNa)

\* The call on one of the given inputs, before its first line.
Called(inputs) ==
    /\ \E in \in inputs : input_file = MakeFile(in)
    /\ pc = "start"
    /\ df = NoTable
    /\ output_file = NoTable
    /\ returned = NoTable
    /\ raised = "none"

Init == Called(Inputs)

Load ==
    /\ pc = "start"
    /\ df' = ReadCsv(input_file)
    /\ pc' = "loaded"
    /\ UNCHANGED <<input_file, output_file, returned, raised>>

Sort ==
    /\ pc = "loaded"
    /\ \E reversed \in BOOLEAN : df' = SortValues(df, reversed)
    /\ pc' = "sorted"
    /\ UNCHANGED <<input_file, output_file, returned, raised>>

ComputeFeatures ==
    /\ pc = "sorted"
    /\ df' = Features(df)
    /\ pc' = "features"
    /\ UNCHANGED <<input_file, output_file, returned, raised>>

\* A missing BuySignal column read as zeros.
ComputeTargetsDefaulted ==
    /\ pc = "features"
    /\ df' = LET t == NextDayReturn(df)
                 zeros == Column([i \in 1..NumRows(t) |-> Num(0)])
             IN  IF "BuySignal" \in DOMAIN t
                 THEN BuySignalStrength(t)
                 ELSE With(t, [buy_signal_strength |-> zeros])
    /\ pc' = "targets"
    /\ UNCHANGED <<input_file, output_file, returned, raised>>

\* Lines 107-109: df['BuySignal'] raises KeyError when the file has no such
\* column, after next_day_return was added.
ComputeTargets ==
    /\ pc = "features"
    /\ IF "BuySignal" \in DOMAIN df
       THEN /\ df' = Then(NextDayReturn(df), BuySignalStrength)
            /\ pc' = "targets"
            /\ raised' = raised
       ELSE /\ df' = NextDayReturn(df)
            /\ pc' = "failed"
            /\ raised' = "KeyError"
    /\ UNCHANGED <<input_file, output_file, returned>>

Prune ==
    /\ pc = "targets"
    /\ df' = DropNa(df)
    /\ pc' = "pruned"
    /\ UNCHANGED <<input_file, output_file, returned, raised>>

\* Line 114: df.to_csv(output_file, index=False)
Save ==
    /\ pc = "pruned"
    /\ output_file' = df
    /\ pc' = "saved"
    /\ UNCHANGED <<input_file, df, returned, raised>>

\* Line 139: return df
Return ==
    /\ pc = "saved"
    /\ returned' = df
    /\ pc' = "done"
    /\ UNCHANGED <<input_file, df, output_file, raised>>

Next ==
    \/ Load
    \/ Sort
    \/ ComputeFeatures
    \/ ComputeTargets
    \/ Prune
    \/ Save
    \/ Return

Spec == Init /\ [][Next]_vars

\* The inputs of the runs that are compared row by row: written in the
\* order of the records, the scenario at every length and every shape at the
\* lengths below the longest window.
CausalityInputs ==
    {in \in Inputs :
        /\ in.order = "asc" /\ in.dup = 0
        /\ in.shape.kind = "scenario" \/ in.n < windows[4]}

InitCausality == Called(CausalityInputs)

SpecCausality == InitCausality /\ [][Next]_vars

\* The inputs of the runs that are compared under reordering: one series
\* written in every order.
InitPermutation == Called(OrderInputs)

SpecPermutation == InitPermutation /\ [][Next]_vars

---------------------------------------------------------------------------
(* What the claims speak of *)

\* The table holds every feature column and no row was pruned yet.
Unpruned == pc \in {"features", "targets", "failed"}

Dates(file) == {file["Date"][k] : k \in Rows(file["Date"])}

\* The dates are compared as parsed: the file's texts are all of one format.
UniqueDates(file) == Cardinality(Dates(file)) = Len(file["Date"])

Labelled(file) == "BuySignal" \in DOMAIN file

InputRows == Len(input_file["Date"])

LongestWindow == windows[Len(windows)]

ValidInput == UniqueDates(input_file) /\ Labelled(input_file)

\* The closes of the rows lo..hi of the table, added up.
RECURSIVE CloseSum(_, _)
CloseSum(lo, hi) ==
    IF lo > hi THEN 0
    ELSE IF lo = hi THEN df["close"][lo][2]
    ELSE CloseSum(lo, (lo + hi) \div 2) + CloseSum((lo + hi) \div 2 + 1, hi)

\* The close changes of the 14 rows that end at index i: rsi's window.
Changes(i) == {j \in (i - rsi_window + 1)..i : j > 1}

Delta(j) == df["close"][j][2] - df["close"][j - 1][2]

NoDecrease(i) == \A j \in Changes(i) : Delta(j) >= 0

NoIncrease(i) == \A j \in Changes(i) : Delta(j) <= 0

DateKeys(table) ==
    IF "Date" \in DOMAIN table
    THEN {DateKey(table["Date"][r]) : r \in Rows(table["Date"])}
    ELSE {}

InputKeys ==
    Column([k \in Rows(input_file["Date"]) |-> DateKey(ParseDate(input_file["Date"][k]))])

GreatestIn(keys) == CHOOSE m \in keys : \A k \in keys : k <= m

GreatestKey == GreatestIn({InputKeys[k] : k \in Rows(InputKeys)})

\* One row only has the greatest date.
GreatestOnce ==
    LET keys == InputKeys
        top  == GreatestIn({keys[k] : k \in Rows(keys)})
    IN  Cardinality({k \in Rows(keys) : keys[k] = top}) = 1

---------------------------------------------------------------------------
(* The claims *)

\* C1 (as claimed): a valid input of n >= 50 rows gives a returned table of
\* exactly n - 49 rows, the first 49 rows of the sorted series being the only
\* ones pruned.
C1_RowCountAsClaimed ==
    (pc = "done" /\ ValidInput /\ InputRows >= LongestWindow)
        => NumRows(returned) = InputRows - (LongestWindow - 1)

\* C2 (as claimed): when two input rows share a date the run fails before
\* any feature column is computed, and no table is written or returned.
C2_DuplicateDateRejected ==
    ~UniqueDates(input_file) =>
        /\ pc \in {"start", "loaded", "sorted"}
        /\ output_file = NoTable
        /\ returned = NoTable

\* C3 (as claimed): before pruning, trend_5, trend_20 and golden_cross are
\* undefined on every row where a moving average they read is undefined.
C3_TrendFlagsUndefined ==
    Unpruned =>
        \A i \in 1..NumRows(df) :
            /\ IsNaN(df["sma_5"][i]) => IsNaN(df["trend_5"][i])
            /\ IsNaN(df["sma_20"][i]) => IsNaN(df["trend_20"][i])
            /\ (IsNaN(df["sma_5"][i]) \/ IsNaN(df["sma_20"][i]))
                  => IsNaN(df["golden_cross"][i])

\* C4 (as claimed): on a row whose 14-row window has no decrease of the
\* close, rsi is undefined, whether or not the window has an increase.
C4_RsiUndefinedAsClaimed ==
    Unpruned =>
        \A i \in rsi_window..NumRows(df) : NoDecrease(i) => IsNaN(df["rsi"][i])

\* C4: on a row whose 14-row window has no decrease of the close, rsi is 100
\* when the window has an increase and undefined when it has none.
C4_RsiOnZeroLoss ==
    Unpruned =>
        \A i \in rsi_window..NumRows(df) :
            NoDecrease(i) =>
                IF NoIncrease(i) THEN IsNaN(df["rsi"][i]) ELSE df["rsi"][i] = Num(100)

C4_Witness ==
    /\ Unpruned
    /\ \E i \in rsi_window..NumRows(df) :
          NoDecrease(i) /\ ~NoIncrease(i) /\ df["rsi"][i] = Num(100)
    /\ \E i \in rsi_window..NumRows(df) :
          NoDecrease(i) /\ NoIncrease(i) /\ IsNaN(df["rsi"][i])

\* C5 (as claimed): before pruning, rsi and macd_signal are undefined on the
\* rows 0..12 and, when the window of row 13 has a decrease, defined from
\* row 13 on.
C5_FirstDefinedAsClaimed ==
    Unpruned =>
        \A i \in 1..NumRows(df) :
            /\ i < rsi_window => IsNaN(df["rsi"][i]) /\ IsNaN(df["macd_signal"][i])
            /\ (i >= rsi_window /\ ~NoDecrease(rsi_window))
                  => ~IsNaN(df["rsi"][i]) /\ ~IsNaN(df["macd_signal"][i])

\* C5: before pruning, rsi is undefined on the rows 0..12 and, from row 13
\* on, undefined exactly on the rows whose 14-row window has neither an
\* increase nor a decrease; macd_signal has a value on every row, the
\* first included: the weighted mean of the macd values so far.
C5_FirstDefined ==
    Unpruned =>
        \A i \in 1..NumRows(df) :
            /\ i < rsi_window => IsNaN(df["rsi"][i])
            /\ i >= rsi_window =>
                  (IsNaN(df["rsi"][i]) <=> (NoDecrease(i) /\ NoIncrease(i)))
            /\ df["macd_signal"][i] = <<"ewm", signal_span, SubSeq(df["macd"], 1, i)>>
            /\ df["macd"][i] = <<"sub", df["ema_12"][i], df["ema_26"][i]>>
            /\ \A w \in {12, 26} :
                  df[Name("ema_", w)][i] = <<"ewm", w, SubSeq(df["close"], 1, i)>>

C5_Witness ==
    /\ Unpruned
    /\ NumRows(df) > rsi_window
    /\ ~NoDecrease(rsi_window)
    /\ ~IsNaN(df["rsi"][rsi_window])
    /\ \E i \in (rsi_window + 1)..NumRows(df) : IsNaN(df["rsi"][i])
    /\ df["macd_signal"][1][1] = "ewm"

\* C6: when the input has no BuySignal column the run fails with the lookup
\* error at the line that computes buy_signal_strength, and at no other
\* point: no buy_signal_strength column exists, nothing is written and
\* nothing is returned.
C6_MissingLabelFails ==
    /\ ~Labelled(input_file) =>
          /\ pc \in {"start", "loaded", "sorted", "features", "failed"}
          /\ "buy_signal_strength" \notin DOMAIN df
          /\ output_file = NoTable
          /\ returned = NoTable
    /\ raised = "KeyError" <=> pc = "failed"
    /\ pc = "failed" => ~Labelled(input_file)

C6_Witness ==
    /\ ~Labelled(input_file)
    /\ pc = "failed"
    /\ raised = "KeyError"
    /\ "next_day_return" \in DOMAIN df
    /\ output_file = NoTable
    /\ returned = NoTable

\* The columns that were read from the file, of a table.
Base(table) == [c \in DOMAIN input_file |-> table[c]]

\* The first i rows of a series.
Truncate(series, i) == Table([c \in DOMAIN series |-> SubSeq(series[c], 1, i)])

\* Another value for a cell of column c: a date a year later, a BuySignal
\* flipped, a number raised.
Changed(c, v) ==
    IF c = "Date" THEN <<"date", v[2] + 1, v[3], v[4]>>
    ELSE IF c = "BuySignal" THEN FSub(Num(1), v)
    ELSE IF c = "close" THEN FAdd(v, Num(2))
    ELSE FAdd(v, Num(1))

\* A sorted series that agrees with the given one on the first i rows and
\* in no cell of a later row.
Perturb(series, i) ==
    Table([c \in DOMAIN series |->
        Column([k \in Rows(series[c]) |->
            IF k <= i THEN series[c][k] ELSE Changed(c, series[c][k])])])

\* The rows up to which two runs are compared: the first, the first with an
\* rsi and the last but one.
CutRows(n) == {i \in {1, rsi_window, n - 1} : i < n}

\* C7: before pruning, the first i rows of every column but next_day_return
\* are the same for the series, for the series cut after row i and for a
\* series that differs in every cell after row i; next_day_return at row i
\* is not the same: it is undefined when the series is cut and has another
\* value when the later rows differ.
C7_Causality ==
    pc = "targets" =>
        \A i \in CutRows(NumRows(df)) :
            LET cut   == Engineer(Truncate(Base(df), i))
                other == Engineer(Perturb(Base(df), i))
            IN  /\ \A c \in DOMAIN df \ {"next_day_return"} :
                      /\ cut[c] = SubSeq(df[c], 1, i)
                      /\ SubSeq(other[c], 1, i) = SubSeq(df[c], 1, i)
                /\ SubSeq(other["next_day_return"], 1, i - 1)
                      = SubSeq(df["next_day_return"], 1, i - 1)
                /\ ~IsNaN(df["next_day_return"][i])
                /\ IsNaN(cut["next_day_return"][i])
                /\ other["next_day_return"][i] # df["next_day_return"][i]

C7_Witness ==
    /\ pc = "targets"
    /\ NumRows(df) > LongestWindow
    /\ NumRows(df) - 1 \in CutRows(NumRows(df))
    /\ ~IsNaN(df["sma_50"][NumRows(df) - 1])
    /\ ~IsNaN(df["rsi"][NumRows(df) - 1])
    /\ ~IsNaN(df["next_day_return"][NumRows(df) - 1])

\* The records of a file written in another order.
Reorder(file, order) ==
    LET n  == Len(file["Date"])
        at == Arrangement(order, n)
    IN  Table([c \in DOMAIN file |-> Column([k \in 1..n |-> file[c][at[k]]])])

\* Two records next to each other in the file are not in date order.
OutOfOrder(file) ==
    \E k \in 1..(Len(file["Date"]) - 1) :
        DateKey(ParseDate(file["Date"][k])) > DateKey(ParseDate(file["Date"][k + 1]))

\* C8: when the dates are pairwise distinct, the table returned (and
\* written) is the table that every reordering of the file's records gives,
\* column by column and row by row.
C8_PermutationInvariant ==
    (pc = "done" /\ UniqueDates(input_file)) =>
        /\ output_file = returned
        /\ \A order \in Orders, reversed \in BOOLEAN :
              create_enhanced_stock_data(Reorder(input_file, order), reversed) = returned

C8_Witness ==
    /\ pc = "done"
    /\ UniqueDates(input_file)
    /\ OutOfOrder(input_file)
    /\ NumRows(returned) > 1

\* sma_w is undefined on the first w - 1 rows and the mean of the closes of
\* the last w rows on every other row: sma = n/d and n * w = sum * d.
SmaIsWindowMean ==
    \A k \in 1..Len(windows) : \A i \in 1..NumRows(df) :
        LET w   == windows[k]
            sma == df[Name("sma_", w)][i]
        IN  IF i < w THEN IsNaN(sma)
            ELSE IsFinite(sma) /\ sma[2] * w = CloseSum(i - w + 1, i) * sma[3]

\* The file is the 20-row scenario, written in date order.
ScenarioInput ==
    /\ Labelled(input_file)
    /\ UniqueDates(input_file)
    /\ ~OutOfOrder(input_file)
    /\ input_file["close"] = ScenarioCloses

LastScenarioRow == Len(ScenarioCloses)

\* C9 (as claimed): sma_w is the mean of the last w closes, undefined on the
\* first w - 1 rows, and the table returned for the 20-row scenario has
\* sma_5 = 21 and trend_5 = 1 at row 19.
C9_ScenarioInResult ==
    /\ Unpruned => SmaIsWindowMean
    /\ (pc = "done" /\ ScenarioInput) =>
          /\ NumRows(returned) >= LastScenarioRow
          /\ returned["sma_5"][LastScenarioRow] = Num(21)
          /\ returned["trend_5"][LastScenarioRow] = Num(1)

\* C9: sma_w is the mean of the last w closes, undefined on the first w - 1
\* rows; for the 20-row scenario the table before pruning has sma_5 = 21 and
\* trend_5 = 1 at row 19, and the table returned has no row.
C9_ScenarioBeforePruning ==
    /\ Unpruned => SmaIsWindowMean
    /\ (Unpruned /\ ScenarioInput) =>
          /\ NumRows(df) = LastScenarioRow
          /\ df["sma_5"][LastScenarioRow] = Num(21)
          /\ df["trend_5"][LastScenarioRow] = Num(1)
    /\ (pc = "done" /\ ScenarioInput) => NumRows(returned) = 0

C9_Witness ==
    /\ pc = "targets"
    /\ ScenarioInput
    /\ df["close"][LastScenarioRow] = Num(23)
    /\ df["sma_5"][LastScenarioRow] = Num(21)
    /\ IsNaN(df["sma_50"][LastScenarioRow])

\* C10: the last row of the sorted series has the greatest date and an
\* undefined next_day_return; no row with an undefined value is in a table
\* after pruning; so the greatest date, when one row only has it, is in no
\* table that is written or returned.
C10_LastRowNeverKept ==
    /\ pc = "targets" =>
          /\ IsNaN(df["next_day_return"][NumRows(df)])
          /\ DateKey(df["Date"][NumRows(df)]) = GreatestKey
    /\ \A table \in {output_file, returned} \cup
                    (IF pc \in {"pruned", "saved", "done"} THEN {df} ELSE {}) :
          /\ \A c \in DOMAIN table : \A r \in Rows(table[c]) : ~IsNaN(table[c][r])
          /\ GreatestOnce => GreatestKey \notin DateKeys(table)

C10_Witness ==
    /\ pc = "done"
    /\ GreatestOnce
    /\ NumRows(returned) > 0
    /\ output_file = returned

====
